---- MODULE Spec2Model ----
(***************************************************************************)
(* AgriScan (bojdavid/Crop_Soil_Analayser): the client-side session store  *)
(* (localStorage / sessionStorage), the login, sign-up, capture and        *)
(* results pages, and the timer-driven mock analysis engine.               *)
(*                                                                         *)
(* Strings the code inspects character by character (form fields, stored   *)
(* emails and names) are sequences of one-character strings.  Enumerated   *)
(* values ("soil", "Good", ...) are TLA+ strings.  Numbers with one        *)
(* decimal place are kept in tenths.                                       *)
(***************************************************************************)
EXTENDS Integers, Sequences, FiniteSets, TLC

VARIABLES
  variant,         \* which Page source is deployed: "handoff" or "inline"
  localStorage,    \* key -> value, absent keys are not in the domain
  sessionStorage,  \* key -> value, absent keys are not in the domain
  route,           \* the page the router shows
  mounted,         \* the shown page's mount effect has run
  home,            \* Page component state (useState / useRef)
  form,            \* LoginPage / SignUpPage component state
  results,         \* ResultsPage component state
  nextScan,        \* the next timer id setInterval hands out
  scans,           \* interval id -> what its startScan closure captured
  ownScans,        \* intervals created by the Page instance now mounted
  intervals,       \* live setInterval handles
  updateQueue,     \* setProgress updaters queued and not yet run
  timeouts,        \* pending settle setTimeout callbacks, in firing order
  reading,         \* settle callbacks suspended in `await fileToBase64`
  pendingLogins,   \* LoginPage.handleSubmit continuations behind the delay
  pendingRegs,     \* SignUpPage.handleSubmit continuations behind the delay
  last,            \* history: the handler that ran last, with its inputs
  cancelled,       \* history: scans that resetAnalysis hit before they delivered
  slotRead         \* history: a mount has read what the hand-off slot holds now

vars == <<variant, localStorage, sessionStorage, route, mounted, home, form,
          results, nextScan, scans, ownScans, intervals, updateQueue, timeouts,
          reading, pendingLogins, pendingRegs, last, cancelled, slotRead>>

storeVars == <<localStorage, sessionStorage, slotRead>>
pageVars == <<route, mounted, home, form, results, updateQueue, ownScans>>
timerVars == <<nextScan, scans, intervals, timeouts, reading>>
authFlight == <<pendingLogins, pendingRegs>>

----------------------------------------------------------------------------
(* Bounds of the model *)

\* startScan calls over one behaviour (timer ids 1..MaxScans)
MaxScans == 2
\* setProgress updaters that may wait for one render
MaxQueue == 2
\* form submissions whose simulated delay has not elapsed yet (SpecAuth)
MaxInflight == 2
\* largest byte size and longest file name of the files SpecGen analyses
MaxFileSize == 120
MaxNameLen == 13
\* the same, while the capture engine is explored too (Spec)
ScanInflight == 1

ScanIds == 1..MaxScans

----------------------------------------------------------------------------
(* Strings as character sequences *)

DemoEmail == <<"u","s","e","r","1","8","@","g","m","a","i","l",".","c","o","m">>
DemoPassword == <<"1","2","3","4","5","6","7","8">>
TrueStr == <<"t","r","u","e">>
InvalidLoginMsg == "Invalid email or password"

AnnEmail == <<"a","@","b",".","c">>
AnnPassword == <<"p","a","s","s","w","o","r","d">>
BobPassword == <<"q","w","e","r","t","y","u","i">>

IsSpace(c) == c \in {" ", "\t", "\n"}

RECURSIVE TrimStart(_)
TrimStart(s) == IF s # <<>> /\ IsSpace(Head(s)) THEN TrimStart(Tail(s)) ELSE s

RECURSIVE TrimEnd(_)
TrimEnd(s) ==
  IF s # <<>> /\ IsSpace(s[Len(s)]) THEN TrimEnd(SubSeq(s, 1, Len(s) - 1)) ELSE s

\* String.prototype.trim
Trim(s) == TrimEnd(TrimStart(s))

\* /^[^\s@]+@[^\s@]+\.[^\s@]+$/.test(s)
EmailRegexTest(s) ==
  \E i \in 1..Len(s), j \in 1..Len(s) :
    /\ s[i] = "@"
    /\ s[j] = "."
    /\ 1 < i
    /\ i + 1 < j
    /\ j < Len(s)
    /\ \A k \in (1..Len(s)) \ {i} : ~IsSpace(s[k]) /\ s[k] # "@"

----------------------------------------------------------------------------
(* Web storage *)

EmptyStore == [k \in {} |-> <<>>]
HasItem(store, k) == k \in DOMAIN store
SetItem(store, k, v) == [x \in DOMAIN store \cup {k} |-> IF x = k THEN v ELSE store[x]]
RemoveItem(store, k) == [x \in DOMAIN store \ {k} |-> store[x]]

\* `!localStorage.getItem(k)`: null and the empty string are both falsy
Truthy(store, k) == HasItem(store, k) /\ store[k] # <<>>

\* JSON.parse(localStorage.getItem("registeredUsers") || "[]")
RegisteredUsers(store) ==
  IF Truthy(store, "registeredUsers") THEN store["registeredUsers"] ELSE <<>>

----------------------------------------------------------------------------
(* Component state *)

NoFile == [size |-> -1, nameLen |-> -1, isImage |-> FALSE]
NoResult == [status |-> "none"]

InitHome ==
  [analysisType |-> "soil", cropType |-> "tomato", file |-> NoFile,
   scanning |-> FALSE, progress |-> 0, pendingScanRef |-> 0,
   userEmail |-> <<>>, userName |-> <<>>, result |-> NoResult, scan |-> 0]

NoErrors == [f \in {} |-> ""]

InitForm == [isLoading |-> FALSE, error |-> "", errors |-> NoErrors]

\* The history record of a handler
Op(name) == [op |-> name, email |-> <<>>, password |-> <<>>, message |-> "", scan |-> 0]

InitResults == [result |-> NoResult, userEmail |-> <<>>, isLoading |-> TRUE]

Routes == {"login", "signup", "home", "results"}

\* The continuations of a page instance that is being unmounted: their
\* setState calls become no-ops.
Disown(q) == [i \in DOMAIN q |-> [q[i] EXCEPT !.own = FALSE]]

\* router.push(p): pushing the route already shown mounts nothing new.
Push(p) ==
  IF p = route
    THEN UNCHANGED pageVars
    ELSE /\ route' = p
         /\ mounted' = (p \in {"login", "signup"})
         /\ home' = InitHome
         /\ form' = InitForm
         /\ results' = InitResults
         /\ updateQueue' = <<>>
         /\ ownScans' = {}

\* What is left of in-flight continuations q after router.push(p).
AfterPush(p, q) == IF p = route THEN q ELSE Disown(q)

----------------------------------------------------------------------------
(* Sign-up page *)

SignupFields == {"fullName", "email", "password", "confirmPassword"}

\* A validateForm without the look-up in registeredUsers
EmailTaken_NotLookedUp(store, email) == FALSE

EmailTaken(store, email) ==
  \E i \in DOMAIN RegisteredUsers(store) : RegisteredUsers(store)[i].email = email

\* newErrors of validateForm, as field -> message ("" when the field is never assigned)
FieldError(fd, store, field) ==
  CASE field = "fullName" ->
         IF Trim(fd.fullName) = <<>> THEN "Full name is required"
         ELSE IF Len(Trim(fd.fullName)) < 2 THEN "Full name must be at least 2 characters"
         ELSE ""
    [] field = "email" ->
         IF EmailTaken(store, fd.email) THEN "An account with this email already exists"
         ELSE IF fd.email = <<>> THEN "Email is required"
         ELSE IF ~EmailRegexTest(fd.email) THEN "Please enter a valid email address"
         ELSE ""
    [] field = "password" ->
         IF fd.password = <<>> THEN "Password is required"
         ELSE IF Len(fd.password) < 8 THEN "Password must be at least 8 characters"
         ELSE ""
    [] field = "confirmPassword" ->
         IF fd.confirmPassword = <<>> THEN "Please confirm your password"
         ELSE IF fd.password # fd.confirmPassword THEN "Passwords do not match"
         ELSE ""

\* Object.keys(newErrors)
ErrorKeys(fd, store) == {f \in SignupFields : FieldError(fd, store, f) # ""}

\* newErrors, the argument of setErrors
NewErrors(fd, store) == [f \in ErrorKeys(fd, store) |-> FieldError(fd, store, f)]

\* A validateForm that forgot the confirmation field
validateForm_NoConfirmation(fd, store) ==
  \A f \in SignupFields \ {"confirmPassword"} : FieldError(fd, store, f) = ""

\* Object.keys(newErrors).length === 0
validateForm(fd, store) == ErrorKeys(fd, store) = {}

\* handleSubmit up to `await new Promise(...)`
InFlight == Len(pendingLogins) + Len(pendingRegs)

RegisterSubmit(fd, limit) ==
  /\ variant = "handoff"
  /\ route = "signup"
  /\ ~form.isLoading
  /\ IF validateForm(fd, localStorage)
       THEN /\ InFlight < limit
            /\ form' = [form EXCEPT !.errors = NoErrors, !.isLoading = TRUE]
            /\ pendingRegs' = Append(pendingRegs, [fd |-> fd, own |-> TRUE])
            /\ last' = Op("other")
       ELSE /\ form' = [form EXCEPT !.errors = NewErrors(fd, localStorage)]
            /\ pendingRegs' = pendingRegs
            /\ last' = [Op("registerInvalid") EXCEPT !.email = fd.email]
  /\ UNCHANGED <<variant, storeVars, route, mounted, home, results, updateQueue,
                 ownScans, timerVars, pendingLogins, cancelled>>

\* A newUser that keeps the name as typed
NewUser_Untrimmed(fd) == [fullName |-> fd.fullName, email |-> fd.email, password |-> fd.password]

\* newUser of handleSubmit (id and createdAt are clock readings no code reads back)
NewUser(fd) == [fullName |-> Trim(fd.fullName), email |-> fd.email, password |-> fd.password]

\* An auto-login whose account never reaches the stored list
AppendUser_NotStored(store, fd) == store

\* existingUsers.push(newUser); localStorage.setItem("registeredUsers", ...)
AppendUser(store, fd) ==
  SetItem(store, "registeredUsers", Append(RegisteredUsers(store), NewUser(fd)))

\* handleSubmit after the delay: store the account, auto-login, go to "/"
RegisterResolve ==
  /\ pendingRegs # <<>>
  /\ LET fd == Head(pendingRegs).fd
     IN  localStorage' =
           SetItem(SetItem(SetItem(AppendUser(localStorage, fd),
                                   "isAuthenticated", TrueStr),
                           "userEmail", fd.email),
                   "userName", Trim(fd.fullName))
  /\ Push("home")
  /\ pendingRegs' = AfterPush("home", Tail(pendingRegs))
  /\ pendingLogins' = AfterPush("home", pendingLogins)
  /\ last' = [Op("registered") EXCEPT !.email = Head(pendingRegs).fd.email]
  /\ UNCHANGED <<variant, sessionStorage, slotRead, timerVars, cancelled>>

\* <Link href="/login">
LinkToLogin ==
  /\ variant = "handoff"
  /\ route = "signup"
  /\ Push("login")
  /\ pendingRegs' = Disown(pendingRegs)
  /\ pendingLogins' = Disown(pendingLogins)
  /\ last' = Op("other")
  /\ UNCHANGED <<variant, storeVars, timerVars, cancelled>>

----------------------------------------------------------------------------
(* Login page *)

\* email === "user18@gmail.com" && password === "12345678"
CheckCredentials_Registered(email, password) ==
  \/ email = DemoEmail /\ password = DemoPassword
  \/ \E i \in DOMAIN RegisteredUsers(localStorage) :
       /\ RegisteredUsers(localStorage)[i].email = email
       /\ RegisteredUsers(localStorage)[i].password = password

CheckCredentials(email, password) == email = DemoEmail /\ password = DemoPassword

\* handleSubmit up to `await new Promise(...)`
LoginSubmit(email, password, limit) ==
  /\ variant = "handoff"
  /\ route = "login"
  /\ ~form.isLoading
  /\ InFlight < limit
  /\ form' = [form EXCEPT !.isLoading = TRUE, !.error = ""]
  /\ pendingLogins' = Append(pendingLogins, [email |-> email, password |-> password, own |-> TRUE])
  /\ last' = Op("other")
  /\ UNCHANGED <<variant, storeVars, route, mounted, home, results, updateQueue,
                 ownScans, timerVars, pendingRegs, cancelled>>

\* handleSubmit after the delay, credentials accepted
LoginAccept ==
  /\ pendingLogins # <<>>
  /\ LET a == Head(pendingLogins)
     IN  /\ CheckCredentials(a.email, a.password)
         /\ localStorage' = SetItem(SetItem(localStorage, "isAuthenticated", TrueStr),
                                    "userEmail", a.email)
         /\ last' = [op |-> "loginOk", email |-> a.email, password |-> a.password,
                     message |-> "", scan |-> 0]
  /\ Push("home")
  /\ pendingLogins' = AfterPush("home", Tail(pendingLogins))
  /\ pendingRegs' = AfterPush("home", pendingRegs)
  /\ UNCHANGED <<variant, sessionStorage, slotRead, timerVars, cancelled>>

\* A rejection that also signs the current user out
StoreAfterReject_SignedOut(store) ==
  RemoveItem(RemoveItem(store, "isAuthenticated"), "userEmail")

\* localStorage after the else branch, which only calls setError
StoreAfterReject(store) == store

\* handleSubmit after the delay, credentials rejected
LoginReject ==
  /\ pendingLogins # <<>>
  /\ LET a == Head(pendingLogins)
     IN  /\ ~CheckCredentials(a.email, a.password)
         /\ last' = [op |-> "loginError", email |-> a.email, password |-> a.password,
                     message |-> InvalidLoginMsg, scan |-> 0]
         /\ form' = IF a.own
                      THEN [form EXCEPT !.error = InvalidLoginMsg, !.isLoading = FALSE]
                      ELSE form
  /\ pendingLogins' = Tail(pendingLogins)
  /\ localStorage' = StoreAfterReject(localStorage)
  /\ UNCHANGED <<variant, sessionStorage, slotRead, route, mounted, home, results,
                 updateQueue, ownScans, timerVars, pendingRegs, cancelled>>

----------------------------------------------------------------------------
(* Mock analysis: generateSampleResult *)

AnalysisTypes == {"soil", "crop"}
CropTypes == {"tomato", "yam", "potato", "onions"}

\* crop.charAt(0).toUpperCase() + crop.slice(1)
CropLabel(crop) ==
  CASE crop = "tomato" -> "Tomato"
    [] crop = "yam" -> "Yam"
    [] crop = "potato" -> "Potato"
    [] crop = "onions" -> "Onions"

\* const seed = (f.size % 97) + f.name.length * 7
\* A seed whose modulus takes in the name term: size % (97 + length * 7)
Seed_ModulusOfSum(f) == f.size % (97 + f.nameLen * 7)

Seed(f) == (f.size % 97) + f.nameLen * 7

\* A status with the two branches swapped
StatusOf_OddIsGood(f) == IF Seed(f) % 2 = 0 THEN "Bad" ELSE "Good"

\* const status = seed % 2 === 0 ? "Good" : "Bad"
StatusOf(f) == IF Seed(f) % 2 = 0 THEN "Good" ELSE "Bad"

\* Math.sin(n) for the integers n = 0, 1, ..., in units of 10^-9 (entry n + 1)
SinOfInteger ==
  <<
    0, 841470985, 909297427, 141120008, -756802495, -958924275,
    -279415498, 656986599, 989358247, 412118485, -544021111, -999990207,
    -536572918, 420167037, 990607356, 650287840, -287903317, -961397492,
    -750987247, 149877210, 912945251, 836655639, -8851309, -846220404,
    -905578362, -132351750, 762558450, 956375928, 270905788, -663633884,
    -988031624, -404037645, 551426681, 999911860, 529082686, -428182669,
    -991778853, -643538133, 296368579, 963795386, 745113160, -158622669,
    -916521548, -831774743, 17701925, 850903525, 901788348, 123573123,
    -768254661, -953752653, -262374854, 670229176, 986627592, 395925150,
    -558789049, -999755173, -521551002, 436164755, 992872648, 636738007,
    -304810621, -966117770, -739180697, 167355700, 920026038, 826828679,
    -26551154, -855519979, -897927681, -114784814, 773890682, 951054653,
    253823363, -676771957, -985146260, -387781635, 566107637, 999520159,
    513978456, -444112669, -993888654, -629887994, 313228782, 968364461,
    733190320, -176075620, -923458447, -821817837, 35398303, 860069406,
    893996664, 105987512, -779466070, -948282141, -245251985, 683261715,
    983587745, 379607739, -573381872, -999206834, -506365641, 452025787,
    994826791, 622988631, -321622403, -970535284, -727142500, 184781745,
    926818505, 816742607, -44242678, -864551449, -889995604, -97181906,
    784980389, 945435334, 236661393, -689697941, -981952169, -371404101,
    580611184, 998815225, 498713154, -459903491, -995686987, -616040459,
    329990826, 972630067, 721037711, -193473392, -930105950, -811603387,
    53083587, 868965756, 885924816, 88368686, -790433207, -942514455,
    -228052260, 696080131, 980239659, 363171365, -587795007, -998345361,
    -491021594, 467745162, 996469173, 609044022, -338333394, -974648648,
    -714876430, 202149881, 933320524, 806400581, -61920337, -873311983,
    -881784619, -79548543, 795824097, 939519732, 219425258, -702407786,
    -978450351, -354910176, 594932778, 997797279, 483291564, -475550187,
    -997173289, -601999868, 346649455, 976590868, 708659140, -210810533,
    -936461974, -801134595, 70752236, 877589788, 877575336, 70722167,
    -801152636, -936451400, -210781066, 708680408, 976584383, 346621180,
    -602023938, -997171023, -475523669, 483317954, 997799279, 594908548,
    -354938358, -978456575, -702386329, 219454668, 939530056, 795805843,
    -79578592, -881798836, -873297297, -61890251, 806418407, 933309700,
    202120359, -714897508, -974641903, -338305028, 609067930, 996466642,
    467718518, -491047854, -998347094, -587770620, 363199451, 980245622,
    696058488, -228081609, -942524527, -790414741, 88398712, 885938798,
    868950838, 53053485, -811620997, -930094878, -193443817, 721058597,
    972623062, 329962370, -616064204, -995684190, -459876723, 498739282,
    998816691, 580586641, -371432089, -981957870, -689676113, 236690681,
    945445155, 784961713, -97211908, -890009349, -864536299, -44212563,
    816760000, 926807186, 184752119, -727163193, -970528020, -321593860,
    623012211, 994823729, 451998898, -506391635, -999208034, -573357175,
    379635627, 983593184, 683239704, -245281209, -948291710, -779447185,
    106017486, 894010170, 860054026, 35368177, -821835011, -923446880,
    -176045946, 733210819, 968356938, 313200155, -629911407, -993885326,
    -444085660, 514004314, 999521092, 566082788, -387809421, -985151436,
    -676749765, 253852520, 951063968, 773871590, -114814759, -897940948,
    -855504371, -26521020, 826845634, 920014225, 167325981, -739200999,
    -966109989, -304781911, 636761251, 992869055, 436137629, -521576722,
    -999755840, -558764050, 395952831, 986632505, 670206804, -262403942,
    -953761713, -768235364, 123603036, 901801375, 850887689, 17671785,
    -831791476, -916509490, -158592906, 745133265, 963787348, 296339788,
    -643561206, -991774996, -428155428, 529108265, 999912260, 551401534,
    -404065219, -988036273, -663611334, 270934805, 956384734, 762538949,
    -132381629, -905591148, -846204342, -8821166, 836672149, 912932949,
    149847406, -751007151, -961389197, -287874449, 650310740, 990603233,
    420139682, -536598355, -999990340, -543995817, 412145950, 989362632,
    656963873, -279444442, -958932825, -756782791, 141149851, 909309971,
    841454697, -30144, -841487271, -909284882, -141090165, 756822199,
    958915723, 279386554, -657009324, -989353860, -412091020, 544046404,
    999990073, 536547480, -420194391, -990611477, -650264940
  >>

\* Math.sin(seed + 5.5 + 7.8) for seed = 0, 1, ..., in units of 10^-9 (entry seed + 1)
SinOfSeedPlusPH ==
  <<
    669569762, 986771964, 396740573, -558052271, -999774431, -522308590,
    435365360, 992766406, 637422596, -303964609, -965888154, -739778585,
    166480004, 919677645, 827327901, -25663300, -855059781, -898318243,
    -115667055, 773327890, 951328739, 254682333, -676117835, -985298384,
    -388600142, 565375278, 999547275, 514740117, -443316731, -993790221,
    -630577565, 312385196, 968142448, 733793998, -175201270, -923117298,
    -822323540, 34510689, 859615949, 894394271, 106870624, -778909381,
    -948563694, -246112921, 682612937, 983747608, 380429265, -572653989,
    -999241807, -507131316, 451233369, 994736175, 623683129, -320781309,
    -970320891, -727751921, 183908809, 926484628, 817254753, -43355374,
    -864104769, -890400225, -98065820, 784429848, 945724331, 237524226,
    -689054557, -982119758, -372228583, 579887835, 998858052, 499482782,
    -459114654, -995604194, -616739830, 329152290, 972423312, 721652826,
    -192601940, -929779371, -812121936, 52196662, 868525889, 886336420,
    89253333, -789888856, -942810874, -228916922, 695442192, 980414962,
    363998738, -587076248, -998396038, -491795116, 466959968, 996394211,
    609748211, -337497482, -974449547, -715497192, 201279981, 933001268,
    806925492, -61033860, -872878963, -882203172, -80433854, 795285979,
    939823550, 220291684, -701775341, -978633353, -355740374, 594218665,
    997855804, 484068918, -474768698, -997106163, -602708820, 345816232,
    976399436, 709285501, -209942253, -936150067, -801665827, 69866277,
    877163648, 878000806, 71608072, -800620793, -936762594, -211649186,
    708053508, 976775071, 347454139, -601314526, -997237389, -476304796,
    482540231, 997739994, 595622208, -354107889, -978272826, -703018239,
    218588075, 939225521, 796343354, -78693220, -881379611, -873729652,
    -62776680, 805892881, 933628245, 202990105, -714276201, -974840262,
    -339140682, 608363277, 996540845, 468503356, -490273958, -998295656,
    -588488931, 362371802, 980069572, 696695897, -227216773, -942227390,
    -790958490, 87513998, 885526519, 869390043, 53940370, -811101830,
    -930420748, -194315122, 720442932, 972829076, 330800654, -615364364,
    -995766224, -460665210, 497969273, 998773103, 581309548, -370607325,
    -981789532, -690318971, 235827668, 945155437, 785511656, -96327919,
    -889604050, -864982320, -45099834, 816247231, 927140356, 185624914,
    -726553218, -970741672, -322434709
  >>

NanoOne == 1000000000

\* Number((min + r * (max - min)).toFixed(1)) in tenths, where
\* r = (sin + 1) / 2, sin in units of 10^-9 and min, max in tenths.
\* The product is taken in two halves to stay within 32 bits.
RandFromSin(sinNano, min10, max10) ==
  LET u == NanoOne + sinNano
      x == (u \div 100000) * (max10 - min10)
      y == (u % 100000) * (max10 - min10)
  IN  min10 + ((x + ((y + NanoOne) \div 100000)) \div 20000)

\* rand(min, max) of generateSampleResult for whole-numbered min and max
rand(seed, min, max) == RandFromSin(SinOfInteger[seed + min + max + 1], 10 * min, 10 * max)

\* rand(5.5, 7.8)
randPH(seed) == RandFromSin(SinOfSeedPlusPH[seed + 1], 55, 78)

\* Math.round of a positive number given in tenths
RoundTenths(t) == (t + 5) \div 10

Max(a, b) == IF a > b THEN a ELSE b

\* A confidence without Math.round: the one-decimal value of rand, in tenths
Confidence_NotRounded(seed) == rand(seed, 68, 95)

\* Math.min(99, Math.max(62, Math.round(rand(68, 95))))
Confidence(seed) ==
  LET r == RoundTenths(rand(seed, 68, 95))
      lo == Max(62, r)
  IN  IF 99 < lo THEN 99 ELSE lo

\* A diseaseRisk read off the health index alone
DiseaseRisk_StatusIgnored(status, healthIdx10) ==
  IF healthIdx10 > 800 THEN "Low" ELSE IF healthIdx10 < 550 THEN "High" ELSE "Moderate"

\* healthIdx and diseaseRisk of the crop branch
DiseaseRisk(status, healthIdx10) ==
  IF status = "Good"
    THEN (IF healthIdx10 > 800 THEN "Low" ELSE "Moderate")
    ELSE (IF healthIdx10 < 550 THEN "High" ELSE "Moderate")

SoilNotes(status) ==
  IF status = "Good"
    THEN <<"Soil quality is suitable for most crops. Minor optimization may improve yield.">>
    ELSE <<"Soil shows suboptimal properties. Consider amending with organic matter and balanced NPK.">>

CropNotes(status, cropLabel) ==
  IF status = "Good"
    THEN <<cropLabel, " crop appears healthy. Maintain current care routine.">>
    ELSE <<cropLabel, " crop shows stress indicators. Inspect leaves and adjust watering/fertilization.">>

\* The fields both Page sources compute; metrics keep their insertion order,
\* one-decimal values are in tenths
SampleResult(kind, crop, f) ==
  LET seed == Seed(f)
      status == StatusOf(f)
  IN  IF kind = "soil"
        THEN [status |-> status,
              confidence |-> Confidence(seed),
              notes |-> SoilNotes(status),
              metrics |-> << <<"pH", randPH(seed)>>,
                             <<"Moisture (%)", rand(seed, 18, 62)>>,
                             <<"Nitrogen (N)", RoundTenths(rand(seed, 15, 80))>>,
                             <<"Phosphorus (P)", RoundTenths(rand(seed, 10, 60))>>,
                             <<"Potassium (K)", RoundTenths(rand(seed, 20, 90))>> >>]
        ELSE [status |-> status,
              confidence |-> Confidence(seed),
              notes |-> CropNotes(status, CropLabel(crop)),
              metrics |-> << <<"Health Index", rand(seed, 35, 95)>>,
                             <<"Disease Risk", DiseaseRisk(status, rand(seed, 35, 95))>>,
                             <<"Leaf/Soil Moisture (%)", rand(seed, 30, 70)>>,
                             <<"Crop", CropLabel(crop)>> >>]

\* A generateSampleResult that takes the soil branch whatever the category
generateSampleResult_SoilBranch(kind, crop, f) ==
  ("analysisType" :> kind) @@ SampleResult("soil", crop, f)

\* generateSampleResult of the hand-off Page: the result names its category
generateSampleResult(kind, crop, f) ==
  IF kind = "soil"
    THEN ("analysisType" :> kind) @@ SampleResult(kind, crop, f)
    ELSE ("analysisType" :> kind) @@ ("cropType" :> crop) @@ SampleResult(kind, crop, f)

\* generateSampleResult of the inline Page
generateSampleResultInline(kind, crop, f) == SampleResult(kind, crop, f)

----------------------------------------------------------------------------
(* Capture page: the progress engine *)

\* Math.random() * 6 + 2 lies in [2, 8); sampled
Deltas == {7}

\* "leaf.png" of 500 bytes, and a file that is no image
LeafPng == [size |-> 500, nameLen |-> 8, isImage |-> TRUE]
NotesTxt == [size |-> 10, nameLen |-> 9, isImage |-> FALSE]
Files == {LeafPng, NotesTxt}

NoClosure == [analysisType |-> "soil", cropType |-> "tomato", sourceFile |-> NoFile]

Min(a, b) == IF a < b THEN a ELSE b

\* The controls of the capture page are rendered
HomeShown == route = "home" /\ (variant = "inline" \/ home.userEmail # <<>>)

\* The mutable things a setProgress updater reads and writes
Engine ==
  [progress |-> home.progress, ref |-> home.pendingScanRef, intervals |-> intervals,
   timeouts |-> timeouts]

\* clearInterval(pendingScanRef.current) when the ref is set
ClearRef(st) == IF st.ref # 0 THEN st.intervals \ {st.ref} ELSE st.intervals

\* An updater without the Math.min
Updater_Uncapped(st, s, d) ==
  LET next == st.progress + d
  IN  IF next >= 100
        THEN [progress |-> next, ref |-> 0, intervals |-> ClearRef(st),
              timeouts |-> Append(st.timeouts, s)]
        ELSE [st EXCEPT !.progress = next]

\* The updater passed to setProgress by the interval of scan s, with delta d
Updater(st, s, d) ==
  LET next == Min(st.progress + d, 100)
  IN  IF next >= 100
        THEN [progress |-> next, ref |-> 0, intervals |-> ClearRef(st),
              timeouts |-> Append(st.timeouts, s)]
        ELSE [st EXCEPT !.progress = next]

\* React runs the queued updaters in order, each on the previous one's result
RECURSIVE RunUpdaters(_, _, _)
RunUpdaters(st, q, ds) ==
  IF q = <<>> THEN st
  ELSE RunUpdaters(Updater(st, q[1], ds[1]),
                   SubSeq(q, 2, Len(q)), [i \in 1..(Len(q) - 1) |-> ds[i + 1]])

DeltaChoices == [1..Len(updateQueue) -> Deltas]

\* The interval callback: setProgress(updater) queues the updater
Tick(s) ==
  /\ s \in intervals
  /\ s \in ownScans
  /\ Len(updateQueue) < MaxQueue
  /\ updateQueue' = Append(updateQueue, s)
  /\ last' = Op("other")
  /\ UNCHANGED <<variant, storeVars, route, mounted, home, form, results, ownScans,
                 timerVars, authFlight, cancelled>>

\* A render of Page: the queued updaters run
Render ==
  /\ updateQueue # <<>>
  /\ \E ds \in DeltaChoices :
       LET st == RunUpdaters(Engine, updateQueue, ds)
       IN  /\ home' = [home EXCEPT !.progress = st.progress, !.pendingScanRef = st.ref]
           /\ intervals' = st.intervals
           /\ timeouts' = st.timeouts
  /\ updateQueue' = <<>>
  /\ last' = Op("other")
  /\ UNCHANGED <<variant, storeVars, route, mounted, form, results, ownScans,
                 nextScan, scans, reading, authFlight, cancelled>>

\* A resetAnalysis that keeps the file when the category changes
FileAfterReset_KeptOnTypeChange(h, reason) ==
  IF reason = "type-change" THEN h.file ELSE NoFile

\* if (reason !== "keep-file") setFile(null)
FileAfterReset(h, reason) == IF reason # "keep-file" THEN NoFile ELSE h.file

\* resetAnalysis(reason) on Page state h; updaters still queued run before the
\* handler's own setProgress(0) takes effect
ResetAnalysis(h, reason) ==
  /\ \E ds \in DeltaChoices :
       LET st == RunUpdaters([Engine EXCEPT !.ref = 0, !.intervals = ClearRef(Engine)],
                             updateQueue, ds)
       IN  /\ home' = [h EXCEPT !.scanning = FALSE, !.progress = 0,
                                !.pendingScanRef = st.ref,
                                !.result = NoResult,
                                !.file = FileAfterReset(h, reason),
                                !.scan = 0]
           /\ intervals' = st.intervals
           /\ timeouts' = st.timeouts
  /\ updateQueue' = <<>>
  /\ cancelled' = IF h.scan # 0 /\ h.result = NoResult
                    THEN cancelled \cup {h.scan} ELSE cancelled

\* The Reset button
ResetClick ==
  /\ HomeShown
  /\ home.file # NoFile \/ home.scanning \/ home.result # NoResult
  /\ ResetAnalysis(home, "undefined")
  /\ last' = Op("reset")
  /\ UNCHANGED <<variant, storeVars, route, mounted, form, results, ownScans,
                 nextScan, scans, reading, authFlight>>

\* The analysis-type Select, and the effect on [analysisType]
SetAnalysisType(t) ==
  /\ HomeShown
  /\ t # home.analysisType
  /\ ResetAnalysis([home EXCEPT !.analysisType = t], "type-change")
  /\ last' = Op("typeChange")
  /\ UNCHANGED <<variant, storeVars, route, mounted, form, results, ownScans,
                 nextScan, scans, reading, authFlight>>

\* The crop Select, rendered in crop mode
SetCropType(c) ==
  /\ HomeShown
  /\ home.analysisType = "crop"
  /\ c # home.cropType
  /\ home' = [home EXCEPT !.cropType = c]
  /\ last' = Op("other")
  /\ UNCHANGED <<variant, storeVars, route, mounted, form, results, updateQueue,
                 ownScans, timerVars, authFlight, cancelled>>

\* What the closures created by startScan capture from the render
Closure(f) == [analysisType |-> home.analysisType, cropType |-> home.cropType, sourceFile |-> f]

\* handleFile(newFile): setFile, then startScan(newFile)
handleFile(f) ==
  /\ nextScan <= MaxScans
  /\ \E ds \in DeltaChoices :
       LET st == RunUpdaters([Engine EXCEPT !.ref = nextScan,
                                            !.intervals = ClearRef(Engine) \cup {nextScan}],
                             updateQueue, ds)
       IN  /\ home' = [home EXCEPT !.file = f, !.scanning = TRUE, !.progress = 0,
                                   !.result = NoResult, !.pendingScanRef = st.ref,
                                   !.scan = nextScan]
           /\ intervals' = st.intervals
           /\ timeouts' = st.timeouts
  /\ updateQueue' = <<>>
  /\ scans' = [scans EXCEPT ![nextScan] = Closure(f)]
  /\ ownScans' = ownScans \cup {nextScan}
  /\ nextScan' = nextScan + 1
  /\ UNCHANGED <<variant, storeVars, route, mounted, form, results, reading,
                 authFlight, cancelled>>

\* Dropping a file on the label
onDrop(f) ==
  /\ HomeShown
  /\ IF f.isImage
       THEN handleFile(f)
       ELSE UNCHANGED <<variant, storeVars, pageVars, timerVars, authFlight, cancelled>>
  /\ last' = Op("other")

\* Picking a file in the input, which is disabled while scanning
onBrowseChange(f) ==
  /\ HomeShown
  /\ ~home.scanning
  /\ IF f.isImage
       THEN handleFile(f)
       ELSE UNCHANGED <<variant, storeVars, pageVars, timerVars, authFlight, cancelled>>
  /\ last' = Op("other")

----------------------------------------------------------------------------
(* Capture page: settle timeout, hand-off and logout *)

SlotKey == "analysisResult"
SlotFull == HasItem(sessionStorage, SlotKey)

\* reader.result of fileToBase64: a data URL of the file's bytes
DataUrl(f) == <<"data", f.size, f.nameLen>>

\* A settle callback that read category and crop kind from the latest render
ClosureOf_LatestRender(s) ==
  [analysisType |-> home.analysisType, cropType |-> home.cropType,
   sourceFile |-> scans[s].sourceFile]

\* Closure values the settle callback of scan s reads
ClosureOf(s) == scans[s]

\* A settle callback that loses the result when the conversion has failed
StringifyResultWithImage_LostOnFailure(c, converted) ==
  IF converted
    THEN ("imageData" :> DataUrl(c.sourceFile))
           @@ generateSampleResult(c.analysisType, c.cropType, c.sourceFile)
    ELSE "analysisType" :> c.analysisType

\* JSON.stringify(resultWithImage): keys holding undefined are left out
StringifyResultWithImage(c, converted) ==
  LET result == generateSampleResult(c.analysisType, c.cropType, c.sourceFile)
      cropPart == IF c.analysisType = "crop" THEN "cropType" :> c.cropType ELSE <<>>
      imagePart == IF converted THEN "imageData" :> DataUrl(c.sourceFile) ELSE <<>>
  IN  ("analysisType" :> c.analysisType) @@ cropPart @@ imagePart @@ result

\* The settle setTimeout fires (hand-off page): generateSampleResult, then
\* the callback suspends in `await fileToBase64(sourceFile)`
SettleFire ==
  /\ variant = "handoff"
  /\ timeouts # <<>>
  /\ reading' = Append(reading, Head(timeouts))
  /\ timeouts' = Tail(timeouts)
  /\ last' = Op("other")
  /\ UNCHANGED <<variant, storeVars, pageVars, nextScan, scans, intervals, authFlight, cancelled>>

RemoveAt(q, i) == [k \in 1..(Len(q) - 1) |-> IF k < i THEN q[k] ELSE q[k + 1]]

\* fileToBase64 settles (converted or rejected): store the result, go to /results
SettleStore(i, converted) ==
  /\ i \in DOMAIN reading
  /\ sessionStorage' = SetItem(sessionStorage, SlotKey,
                               StringifyResultWithImage(ClosureOf(reading[i]), converted))
  /\ slotRead' = FALSE
  /\ Push("results")
  /\ pendingLogins' = AfterPush("results", pendingLogins)
  /\ pendingRegs' = AfterPush("results", pendingRegs)
  /\ reading' = RemoveAt(reading, i)
  /\ last' = [Op("deposit") EXCEPT !.scan = reading[i]]
  /\ UNCHANGED <<variant, localStorage, nextScan, scans, intervals, timeouts, cancelled>>

\* The settle setTimeout fires (inline page): setResult(r); setScanning(false)
SettleInline ==
  /\ variant = "inline"
  /\ timeouts # <<>>
  /\ LET c == ClosureOf(Head(timeouts))
     IN  home' = [home EXCEPT
                    !.result = generateSampleResultInline(c.analysisType, c.cropType, c.sourceFile),
                    !.scanning = FALSE]
  /\ timeouts' = Tail(timeouts)
  /\ last' = [Op("deposit") EXCEPT !.scan = Head(timeouts)]
  /\ UNCHANGED <<variant, storeVars, route, mounted, form, results, updateQueue,
                 ownScans, nextScan, scans, intervals, reading, authFlight, cancelled>>

Authenticated(store) == Truthy(store, "isAuthenticated") /\ Truthy(store, "userEmail")

\* Page's mount effect: the authentication check
MountHome ==
  /\ variant = "handoff"
  /\ route = "home"
  /\ ~mounted
  /\ IF ~Authenticated(localStorage)
       THEN /\ Push("login")
            /\ pendingLogins' = Disown(pendingLogins)
            /\ pendingRegs' = Disown(pendingRegs)
       ELSE /\ mounted' = TRUE
            /\ home' = [home EXCEPT
                 !.userEmail = localStorage["userEmail"],
                 !.userName = IF Truthy(localStorage, "userName")
                                THEN localStorage["userName"]
                                ELSE localStorage["userEmail"]]
            /\ UNCHANGED <<route, form, results, updateQueue, ownScans, authFlight>>
  /\ last' = Op("other")
  /\ UNCHANGED <<variant, storeVars, timerVars, cancelled>>

\* Page's handleLogout
HomeLogout ==
  /\ variant = "handoff"
  /\ HomeShown
  /\ localStorage' = RemoveItem(RemoveItem(RemoveItem(localStorage, "isAuthenticated"),
                                           "userEmail"), "userName")
  /\ sessionStorage' = RemoveItem(sessionStorage, SlotKey)
  /\ slotRead' = FALSE
  /\ Push("login")
  /\ pendingLogins' = Disown(pendingLogins)
  /\ pendingRegs' = Disown(pendingRegs)
  /\ last' = Op("logout")
  /\ UNCHANGED <<variant, timerVars, cancelled>>

----------------------------------------------------------------------------
(* Results page *)

\* JSON.parse of what JSON.stringify wrote
ParseResult(v) == v

\* A slot value that is no JSON text: something other than the app wrote it
NotJson == [unparsable |-> "{status:"]

\* A JSON.parse that never throws
Parses_Anything(v) == TRUE

\* JSON.parse(v) does not throw
Parses(v) == "unparsable" \notin DOMAIN v

\* A mount effect that took the result out of the slot
SlotAfterRead_Cleared(store) == RemoveItem(store, SlotKey)

\* sessionStorage after the mount effect has read the slot: the effect only reads
SlotAfterRead(store) == store

\* ResultsPage's mount effect
MountResults ==
  /\ variant = "handoff"
  /\ route = "results"
  /\ ~mounted
  /\ IF ~Authenticated(localStorage)
       THEN /\ Push("login")
            /\ last' = Op("other")
            /\ UNCHANGED <<sessionStorage, slotRead>>
       ELSE IF SlotFull /\ Parses(sessionStorage[SlotKey])
         THEN /\ results' = [result |-> ParseResult(sessionStorage[SlotKey]),
                             userEmail |-> localStorage["userEmail"],
                             isLoading |-> FALSE]
              /\ mounted' = TRUE
              /\ last' = Op(IF slotRead THEN "reread" ELSE "read")
              /\ slotRead' = TRUE
              /\ sessionStorage' = SlotAfterRead(sessionStorage)
              /\ UNCHANGED <<route, home, form, updateQueue, ownScans>>
         ELSE /\ Push("home")
              /\ last' = Op("noResult")
              /\ UNCHANGED <<sessionStorage, slotRead>>
  /\ pendingLogins' = Disown(pendingLogins)
  /\ pendingRegs' = Disown(pendingRegs)
  /\ UNCHANGED <<variant, localStorage, timerVars, cancelled>>

\* The source of the image preview: result.imageUrl, or nothing (the placeholder icon)
ImageShown(r) == IF "imageUrl" \in DOMAIN r THEN r["imageUrl"] ELSE <<>>

ResultsShown == route = "results" /\ mounted /\ ~results.isLoading /\ results.result # NoResult

\* ResultsPage's handleLogout
ResultsLogout ==
  /\ ResultsShown
  /\ localStorage' = RemoveItem(RemoveItem(localStorage, "isAuthenticated"), "userEmail")
  /\ sessionStorage' = RemoveItem(sessionStorage, SlotKey)
  /\ slotRead' = FALSE
  /\ Push("login")
  /\ pendingLogins' = Disown(pendingLogins)
  /\ pendingRegs' = Disown(pendingRegs)
  /\ last' = Op("resultsLogout")
  /\ UNCHANGED <<variant, timerVars, cancelled>>

\* ResultsPage's handleBackToAnalysis
handleBackToAnalysis ==
  /\ ResultsShown
  /\ sessionStorage' = RemoveItem(sessionStorage, SlotKey)
  /\ slotRead' = FALSE
  /\ Push("home")
  /\ pendingLogins' = Disown(pendingLogins)
  /\ pendingRegs' = Disown(pendingRegs)
  /\ last' = Op("back")
  /\ UNCHANGED <<variant, localStorage, timerVars, cancelled>>

\* The browser's history (back / forward) shows another page of the app
HistoryNavigate(p) ==
  /\ variant = "handoff"
  /\ p # route
  /\ Push(p)
  /\ pendingLogins' = Disown(pendingLogins)
  /\ pendingRegs' = Disown(pendingRegs)
  /\ last' = Op("other")
  /\ UNCHANGED <<variant, storeVars, timerVars, cancelled>>

----------------------------------------------------------------------------
(* The application *)

AnnForm ==
  [fullName |-> <<" ","A","n","n">>, email |-> AnnEmail,
   password |-> AnnPassword, confirmPassword |-> AnnPassword]

BobForm ==
  [fullName |-> <<"B","o">>, email |-> AnnEmail,
   password |-> BobPassword, confirmPassword |-> BobPassword]

BadForm ==
  [fullName |-> <<"A"," ">>, email |-> <<"a","@","b">>,
   password |-> <<"1","2","3">>, confirmPassword |-> <<"1","2">>]

\* A second account, with an email of its own
CyEmail == <<"c","@","d",".","e">>
CyForm ==
  [fullName |-> <<"C","y">>, email |-> CyEmail,
   password |-> BobPassword, confirmPassword |-> BobPassword]

\* Ann's form with one field spoilt: a one-letter name behind blanks, an email
\* without a dot after the @, a seven-character password, another confirmation
ShortNameForm == [AnnForm EXCEPT !.fullName = <<" ","A"," ">>]
BadEmailForm == [AnnForm EXCEPT !.email = <<"a","@","b">>]
ShortPasswordForm ==
  [AnnForm EXCEPT !.password = <<"p","a","s","s","w","o","r">>,
                  !.confirmPassword = <<"p","a","s","s","w","o","r">>]
MismatchForm == [AnnForm EXCEPT !.confirmPassword = BobPassword]

SignupForms ==
  {AnnForm, BobForm, CyForm, BadForm, ShortNameForm, BadEmailForm,
   ShortPasswordForm, MismatchForm}
LoginEmails == {DemoEmail, AnnEmail}
LoginPasswords == {DemoPassword, AnnPassword}
CropInputs == {"tomato", "yam"}

Init ==
  /\ variant \in {"handoff", "inline"}
  /\ localStorage = EmptyStore
  /\ sessionStorage = EmptyStore
  /\ slotRead = FALSE
  /\ route = "home"
  /\ mounted = (variant = "inline")
  /\ home = InitHome
  /\ form = InitForm
  /\ results = InitResults
  /\ nextScan = 1
  /\ scans = [s \in ScanIds |-> NoClosure]
  /\ ownScans = {}
  /\ intervals = {}
  /\ updateQueue = <<>>
  /\ timeouts = <<>>
  /\ reading = <<>>
  /\ pendingLogins = <<>>
  /\ pendingRegs = <<>>
  /\ last = Op("other")
  /\ cancelled = {}

\* Actions of the capture and results pages
EngineNext ==
  \/ \E t \in AnalysisTypes : SetAnalysisType(t)
  \/ \E c \in CropInputs : SetCropType(c)
  \/ ResetClick
  \/ \E f \in Files : onDrop(f)
  \/ \E f \in Files : onBrowseChange(f)
  \/ \E s \in ScanIds : Tick(s)
  \/ Render
  \/ SettleFire
  \/ \E i \in 1..(MaxScans * MaxQueue), converted \in BOOLEAN : SettleStore(i, converted)
  \/ SettleInline
  \/ ResultsLogout
  \/ handleBackToAnalysis

\* Mounting, navigation and completion of the form submissions
SessionNext ==
  \/ RegisterResolve
  \/ LinkToLogin
  \/ LoginAccept
  \/ MountHome
  \/ HomeLogout
  \/ MountResults

\* History navigation while no form submission is behind its delay; the
\* interleavings of navigation with submissions in flight are those of SpecAuth
NavigateBetweenSubmissions(p) == InFlight = 0 /\ HistoryNavigate(p)

\* The whole application, with one account and the demo login
Next ==
  \/ \E p \in Routes : NavigateBetweenSubmissions(p)
  \/ RegisterSubmit(AnnForm, ScanInflight)
  \/ LoginSubmit(DemoEmail, DemoPassword, ScanInflight)
  \/ SessionNext
  \/ EngineNext

Spec == Init /\ [][Next]_vars

\* The session store alone: no file is ever submitted
AuthNext ==
  \/ \E fd \in SignupForms : RegisterSubmit(fd, MaxInflight)
  \/ \E e \in LoginEmails, pw \in LoginPasswords : LoginSubmit(e, pw, MaxInflight)
  \/ LoginReject
  \/ \E p \in Routes : HistoryNavigate(p)
  \/ SessionNext

AuthInit == Init /\ variant = "handoff"

SpecAuth == AuthInit /\ [][AuthNext]_vars

\* The files whose analysis SpecGen computes
GenFiles ==
  {[size |-> n, nameLen |-> k, isImage |-> TRUE] : n \in 0..MaxFileSize, k \in 1..MaxNameLen}
    \cup {LeafPng}

\* The session the demo login leaves in localStorage
DemoSession == SetItem(SetItem(EmptyStore, "isAuthenticated", TrueStr), "userEmail", DemoEmail)

\* The capture page in Settling: a file was dropped with some category and
\* crop kind selected, progress has reached 100 and the settle timeout of the
\* scan is pending
GenInit ==
  /\ variant \in {"handoff", "inline"}
  /\ localStorage = IF variant = "handoff" THEN DemoSession ELSE EmptyStore
  /\ sessionStorage = EmptyStore
  /\ slotRead = FALSE
  /\ route = "home"
  /\ mounted = TRUE
  /\ \E f \in GenFiles, t \in AnalysisTypes, c \in CropTypes :
       /\ t = "soil" => c = "tomato"
       /\ home = [InitHome EXCEPT
                     !.analysisType = t, !.cropType = c, !.file = f, !.scanning = TRUE,
                     !.progress = 100, !.scan = 1,
                     !.userEmail = IF variant = "handoff" THEN DemoEmail ELSE <<>>,
                     !.userName = IF variant = "handoff" THEN DemoEmail ELSE <<>>]
       /\ scans = [s \in ScanIds |->
                     IF s = 1 THEN [analysisType |-> t, cropType |-> c, sourceFile |-> f]
                              ELSE NoClosure]
  /\ form = InitForm
  /\ results = InitResults
  /\ nextScan = 2
  /\ ownScans = {1}
  /\ intervals = {}
  /\ updateQueue = <<>>
  /\ timeouts = <<1>>
  /\ reading = <<>>
  /\ pendingLogins = <<>>
  /\ pendingRegs = <<>>
  /\ last = Op("other")
  /\ cancelled = {}

\* The settle callback of that scan, and the results page that shows its result
GenNext ==
  \/ SettleFire
  \/ \E i \in 1..(MaxScans * MaxQueue), converted \in BOOLEAN : SettleStore(i, converted)
  \/ SettleInline
  \/ MountResults

SpecGen == GenInit /\ [][GenNext]_vars

\* localStorage after Ann has registered, and after she has then logged out
\* on the results page
AnnSession ==
  SetItem(SetItem(SetItem(AppendUser(EmptyStore, AnnForm), "isAuthenticated", TrueStr),
                  "userEmail", AnnEmail), "userName", Trim(AnnForm.fullName))
AnnLoggedOut == RemoveItem(RemoveItem(AnnSession, "isAuthenticated"), "userEmail")

\* The hand-off slot after the soil scan of leaf.png has delivered
LeafClosure == [analysisType |-> "soil", cropType |-> "tomato", sourceFile |-> LeafPng]
LeafSlot == SetItem(EmptyStore, SlotKey, StringifyResultWithImage(LeafClosure, TRUE))

\* The login page, or the results page about to mount, over the contents the
\* two stores can have by then: no session, the demo session, Ann's session
\* or what her logout on the results page leaves; the slot empty, holding the
\* result of a finished scan, or holding text that is no JSON
PagesInit ==
  /\ variant = "handoff"
  /\ localStorage \in {EmptyStore, DemoSession, AnnSession, AnnLoggedOut}
  /\ sessionStorage \in {EmptyStore, LeafSlot, SetItem(EmptyStore, SlotKey, NotJson)}
  /\ slotRead = FALSE
  /\ route \in {"login", "results"}
  /\ mounted = (route = "login")
  /\ home = InitHome
  /\ form = InitForm
  /\ results = InitResults
  /\ nextScan = IF sessionStorage = LeafSlot THEN 2 ELSE 1
  /\ scans = [s \in ScanIds |-> IF s < nextScan THEN LeafClosure ELSE NoClosure]
  /\ ownScans = {}
  /\ intervals = {}
  /\ updateQueue = <<>>
  /\ timeouts = <<>>
  /\ reading = <<>>
  /\ pendingLogins = <<>>
  /\ pendingRegs = <<>>
  /\ last = Op("other")
  /\ cancelled = {}

\* Logins, mounts, logouts and navigation, with no scan running
PagesNext ==
  \/ \E e \in LoginEmails, pw \in LoginPasswords : LoginSubmit(e, pw, MaxInflight)
  \/ LoginAccept
  \/ LoginReject
  \/ MountHome
  \/ HomeLogout
  \/ MountResults
  \/ ResultsLogout
  \/ handleBackToAnalysis
  \/ \E p \in Routes : HistoryNavigate(p)

SpecPages == PagesInit /\ [][PagesNext]_vars

----------------------------------------------------------------------------
(* Properties *)

\* C1: a scan that resetAnalysis hit while it was Running or Settling
\* produces no result afterwards: no settle callback of such a scan writes the
\* hand-off slot, sets a result or navigates.
C1_NoResultAfterReset == last.op = "deposit" => last.scan \notin cancelled

\* Timers of the engine that are live: tick intervals and pending settle timeouts
LiveTimers == Cardinality(intervals) + Len(timeouts)

\* C2: in every reachable state at most one timer of the engine is live,
\* counting the tick interval and every pending settle timeout together.
C2_AtMostOneTimer == LiveTimers <= 1

C4_LogoutClearsSession ==
  last.op \in {"logout", "resultsLogout"} =>
    /\ ~HasItem(localStorage, "isAuthenticated")
    /\ ~HasItem(localStorage, "userEmail")
    /\ ~HasItem(localStorage, "userName")
    /\ ~SlotFull

\* C5: while no session is established the hand-off slot is empty; a scan
\* that was Running or Settling at the logout deposits nothing afterwards.
C5_SlotEmptyWhileLoggedOut == ~Authenticated(localStorage) => ~SlotFull

\* The result a settle callback has just delivered
Delivered == IF variant = "handoff" THEN sessionStorage[SlotKey] ELSE home.result

\* C6: the result delivered for a scan is the one of the category, crop kind
\* and file captured when the file was submitted, whatever the selectors show
\* when the settle callback runs.
C6_ResultOfSubmission ==
  last.op = "deposit" =>
    LET c == scans[last.scan]
        r == Delivered
    IN  /\ r.status = StatusOf(c.sourceFile)
        /\ r.confidence = Confidence(Seed(c.sourceFile))
        /\ r.metrics = SampleResult(c.analysisType, c.cropType, c.sourceFile).metrics
        /\ variant = "handoff" => r.analysisType = c.analysisType
        /\ c.analysisType = "crop" =>
             /\ r.metrics[4] = <<"Crop", CropLabel(c.cropType)>>
             /\ r.notes[1] = CropLabel(c.cropType)
             /\ variant = "handoff" => r.cropType = c.cropType
        /\ c.analysisType = "soil" =>
             /\ r.metrics[1][1] = "pH"
             /\ "cropType" \notin DOMAIN r

\* C6 witness: a result is delivered for a crop scan after the user has
\* picked another crop kind
C6_CropChangedMidScan ==
  /\ last.op = "deposit"
  /\ variant = "inline"
  /\ home.analysisType = "crop"
  /\ scans[last.scan].analysisType = "crop"
  /\ scans[last.scan].cropType # home.cropType
  /\ home.result.metrics[4] = <<"Crop", CropLabel(scans[last.scan].cropType)>>

\* Pending settle timeouts that scan s has scheduled
SettleTimeoutsOf(s) == {i \in DOMAIN timeouts : timeouts[i] = s}

\* C7: a scan goes from Running to Settling once: it never has two settle
\* timeouts pending, for any ordering of ticks and deferred updaters.
C7_OneSettleTimeout == \A s \in ScanIds : Cardinality(SettleTimeoutsOf(s)) <= 1

\* C9: a login establishes the session exactly when the submitted pair is the
\* demo pair; every other pair, the credentials of registered accounts
\* included, is answered with 'Invalid email or password'.
C9_LoginIffDemoPair ==
  /\ last.op = "loginOk" =>
       /\ last.email = DemoEmail
       /\ last.password = DemoPassword
       /\ Authenticated(localStorage)
       /\ localStorage["userEmail"] = DemoEmail
  /\ last.op = "loginError" =>
       /\ ~(last.email = DemoEmail /\ last.password = DemoPassword)
       /\ last.message = InvalidLoginMsg

\* C9 witness: the exact credentials of a registered account are rejected
C9_RegisteredAccountRejected ==
  /\ last.op = "loginError"
  /\ \E i \in DOMAIN RegisteredUsers(localStorage) :
       /\ RegisteredUsers(localStorage)[i].email = last.email
       /\ RegisteredUsers(localStorage)[i].password = last.password

\* C10: the stored list of registered accounts never holds two accounts with
\* the same email.
C10_UniqueEmails ==
  \A i, j \in DOMAIN RegisteredUsers(localStorage) :
    RegisteredUsers(localStorage)[i].email = RegisteredUsers(localStorage)[j].email => i = j

\* The emails of the accounts in the stored list
StoredEmails == {RegisteredUsers(localStorage)[i].email : i \in DOMAIN RegisteredUsers(localStorage)}

\* C11: whenever the authenticated flag is stored, the stored session email
\* is non-empty and is the demo email or the email of a stored account.
C11_SessionEmailKnown ==
  HasItem(localStorage, "isAuthenticated") =>
    /\ Truthy(localStorage, "userEmail")
    /\ localStorage["userEmail"] \in {DemoEmail} \cup StoredEmails

\* C11 witness: the session of a registered account that is not the demo account
C11_RegisteredSession ==
  /\ Authenticated(localStorage)
  /\ localStorage["userEmail"] = CyEmail
  /\ CyEmail \in StoredEmails
  /\ Len(RegisteredUsers(localStorage)) = 2

\* The four defects of a sign-up form that C12 names
FormDefect(fd) ==
  \/ Len(Trim(fd.fullName)) < 2
  \/ ~EmailRegexTest(fd.email)
  \/ Len(fd.password) < 8
  \/ fd.confirmPassword # fd.password

\* C12: a sign-up submission whose trimmed name is shorter than 2, whose
\* email is not well formed, whose password is shorter than 8 or whose
\* confirmation differs is refused with an error on a field: nothing is put
\* behind the delay, localStorage (accounts and session) stays as it is.
C12_InvalidFormRefused ==
  [][\A fd \in SignupForms :
       (FormDefect(fd) /\ RegisterSubmit(fd, MaxInflight)) =>
         /\ localStorage' = localStorage
         /\ pendingRegs' = pendingRegs
         /\ DOMAIN form'.errors # {}
         /\ form'.isLoading = FALSE]_vars

\* C12 witness: a form whose only defect is the confirmation has been refused
C12_MismatchRefused ==
  /\ last.op = "registerInvalid"
  /\ route = "signup"
  /\ DOMAIN form.errors = {"confirmPassword"}
  /\ form.errors["confirmPassword"] = "Passwords do not match"
  /\ pendingRegs = <<>>

\* C13: a sign-up submission with an email that a stored account has
\* already is refused with the error on the email field, and the account list
\* and the session stay as they are.
C13_StoredEmailRefused ==
  [][\A fd \in SignupForms :
       (fd.email \in StoredEmails /\ RegisterSubmit(fd, MaxInflight)) =>
         /\ "email" \in DOMAIN form'.errors
         /\ form'.errors["email"] = "An account with this email already exists"
         /\ localStorage' = localStorage
         /\ pendingRegs' = pendingRegs]_vars

\* C13 witness: an otherwise valid form is refused for its stored email only
C13_SecondAccountRefused ==
  /\ last.op = "registerInvalid"
  /\ last.email \in StoredEmails
  /\ DOMAIN form.errors = {"email"}
  /\ form.errors["email"] = "An account with this email already exists"

\* C14: the completion of a sign-up appends one account, the submitted email
\* with the trimmed name and the password, after the accounts stored before,
\* and the session is then that of the new account.
C14_RegisterAppendsAndLogsIn ==
  [][RegisterResolve =>
       LET fd == Head(pendingRegs).fd
           old == RegisteredUsers(localStorage)
           new == RegisteredUsers(localStorage')
       IN  /\ Len(new) = Len(old) + 1
           /\ SubSeq(new, 1, Len(old)) = old
           /\ new[Len(new)] = [fullName |-> Trim(fd.fullName), email |-> fd.email,
                               password |-> fd.password]
           /\ localStorage'["isAuthenticated"] = TrueStr
           /\ localStorage'["userEmail"] = fd.email
           /\ localStorage'["userName"] = Trim(fd.fullName)]_vars

\* C14 witness: Ann's account, its name trimmed, stored after an earlier one,
\* with the session Ann's
C14_SecondAccountStored ==
  /\ last.op = "registered"
  /\ last.email = AnnEmail
  /\ Len(RegisteredUsers(localStorage)) = 2
  /\ RegisteredUsers(localStorage)[1].email = CyEmail
  /\ RegisteredUsers(localStorage)[2].fullName = <<"A","n","n">>
  /\ localStorage["userName"] = <<"A","n","n">>

\* Scans with a settle callback suspended in `await fileToBase64`
Reading == {reading[i] : i \in DOMAIN reading}

\* C15: right after the Reset button the engine is Idle: not scanning,
\* progress 0, no file, no result, and no scan that resetAnalysis has
\* cancelled still has a tick interval or a settle callback pending.
C15_ResetLeavesIdle ==
  last.op = "reset" =>
    /\ ~home.scanning
    /\ home.progress = 0
    /\ home.file = NoFile
    /\ home.result = NoResult
    /\ \A s \in cancelled :
         /\ s \notin intervals
         /\ SettleTimeoutsOf(s) = {}
         /\ s \notin Reading

\* C16: a scan that was neither reset nor superseded deposits one result in
\* the hand-off slot: when its settle callback has written the slot, no other
\* settle callback of the same scan is left to write it again.
C16_OneDepositPerScan ==
  (/\ variant = "handoff"
   /\ last.op = "deposit"
   /\ last.scan \notin cancelled
   /\ last.scan = nextScan - 1) =>
    /\ SettleTimeoutsOf(last.scan) = {}
    /\ last.scan \notin Reading

\* C17: the confidence of every generated result is an integer from 62 to 99.
C17_ConfidenceInRange == last.op = "deposit" => Delivered.confidence \in 62..99

\* C17 witness: a crop result with the highest confidence the files yield
C17_HighestConfidence ==
  /\ last.op = "deposit"
  /\ scans[last.scan].analysisType = "crop"
  /\ Delivered.confidence = 95

\* C18: the status of every generated result is "Good" when
\* (byteSize mod 97) + 7 * filenameLength is even and "Bad" when it is odd,
\* whatever the category and the crop kind.
C18_StatusBySeedParity ==
  last.op = "deposit" =>
    LET f == scans[last.scan].sourceFile
        seed == (f.size % 97) + 7 * f.nameLen
    IN  /\ Seed(f) = seed
        /\ Delivered.status = IF seed % 2 = 0 THEN "Good" ELSE "Bad"

\* C18 witness: a crop result of a file of 97 bytes or more with status "Good"
C18_GoodCropLargeFile ==
  /\ last.op = "deposit"
  /\ scans[last.scan].analysisType = "crop"
  /\ scans[last.scan].sourceFile.size >= 97
  /\ scans[last.scan].sourceFile.size % 2 = 1
  /\ Delivered.status = "Good"

\* C19 as claimed: for the file of 500 bytes with an 8-character name and
\* category soil, 500 mod 97 is 13, the seed is 69 and the status is "Bad".
C19_LeafPngSeed69 ==
  (/\ last.op = "deposit"
   /\ scans[last.scan].sourceFile = LeafPng
   /\ scans[last.scan].analysisType = "soil") =>
    /\ LeafPng.size % 97 = 13
    /\ Seed(scans[last.scan].sourceFile) = 69
    /\ Delivered.status = "Bad"

\* C19, amended: for that file and category soil, 500 mod 97 is 15, the seed
\* is 15 + 56 = 71 and the status is "Bad".
C19_LeafPngSeed71 ==
  (/\ last.op = "deposit"
   /\ scans[last.scan].sourceFile = LeafPng
   /\ scans[last.scan].analysisType = "soil") =>
    /\ LeafPng.size % 97 = 15
    /\ Seed(scans[last.scan].sourceFile) = 71
    /\ Delivered.status = "Bad"

\* C19 witness: the soil result of leaf.png has reached the hand-off slot
C19_LeafPngDelivered ==
  /\ last.op = "deposit"
  /\ variant = "handoff"
  /\ scans[last.scan].sourceFile = [size |-> 500, nameLen |-> 8, isImage |-> TRUE]
  /\ scans[last.scan].analysisType = "soil"
  /\ sessionStorage[SlotKey].status = "Bad"

\* Object.keys(result.metrics)
MetricKeys(r) == [i \in DOMAIN r.metrics |-> r.metrics[i][1]]

\* C20: a soil result has the 5 metrics pH, Moisture (%), Nitrogen (N),
\* Phosphorus (P), Potassium (K) in this order, a crop result the 4 metrics
\* Health Index, Disease Risk, Leaf/Soil Moisture (%), Crop in this order, and
\* every metric has its value.
C20_MetricKeys ==
  last.op = "deposit" =>
    /\ MetricKeys(Delivered) =
         IF scans[last.scan].analysisType = "soil"
           THEN <<"pH", "Moisture (%)", "Nitrogen (N)", "Phosphorus (P)", "Potassium (K)">>
           ELSE <<"Health Index", "Disease Risk", "Leaf/Soil Moisture (%)", "Crop">>
    /\ \A i \in DOMAIN Delivered.metrics : Len(Delivered.metrics[i]) = 2

\* C20 witness: a crop result with its 4 metrics in the hand-off slot
C20_CropResultDelivered ==
  /\ last.op = "deposit"
  /\ variant = "handoff"
  /\ sessionStorage[SlotKey].analysisType = "crop"
  /\ Len(sessionStorage[SlotKey].metrics) = 4
  /\ sessionStorage[SlotKey].metrics[2][2] = "High"

\* C21: in every crop result Disease Risk is "Low" exactly for status Good
\* with Health Index above 80, "High" exactly for status Bad with Health Index
\* below 55, and "Moderate" otherwise (the index is kept in tenths).
C21_DiseaseRiskByStatus ==
  (last.op = "deposit" /\ scans[last.scan].analysisType = "crop") =>
    LET r == Delivered
        healthIdx10 == r.metrics[1][2]
        risk == r.metrics[2][2]
    IN  /\ r.metrics[1][1] = "Health Index"
        /\ r.metrics[2][1] = "Disease Risk"
        /\ risk \in {"Low", "Moderate", "High"}
        /\ risk = "Low" <=> (r.status = "Good" /\ healthIdx10 > 800)
        /\ risk = "High" <=> (r.status = "Bad" /\ healthIdx10 < 550)

\* C21 witness: a Bad crop result whose Health Index is above 80 reports Moderate
C21_BadButHealthy ==
  /\ last.op = "deposit"
  /\ scans[last.scan].analysisType = "crop"
  /\ Delivered.status = "Bad"
  /\ Delivered.metrics[1][2] > 800
  /\ Delivered.metrics[2][2] = "Moderate"

\* C25: when fileToBase64 rejects, the settle callback still writes the
\* result of its scan to the hand-off slot, without imageData, and still goes
\* to the results page.
C25_DepositWithoutImage ==
  [][\A i \in DOMAIN reading :
       SettleStore(i, FALSE) =>
         LET c == scans[reading[i]]
             r == sessionStorage'[SlotKey]
         IN  /\ SlotKey \in DOMAIN sessionStorage'
             /\ "imageData" \notin DOMAIN r
             /\ {"status", "confidence", "notes", "metrics", "analysisType"} \subseteq DOMAIN r
             /\ r.status = StatusOf(c.sourceFile)
             /\ r.metrics = SampleResult(c.analysisType, c.cropType, c.sourceFile).metrics
             /\ route' = "results"]_vars

\* C25 witness: a result without image snapshot is in the slot and the
\* results page shows it
C25_ShownWithoutImage ==
  /\ variant = "handoff"
  /\ last.op = "read"
  /\ ResultsShown
  /\ "imageData" \notin DOMAIN results.result
  /\ results.result.status \in {"Good", "Bad"}

\* C22: progress always lies in 0..100; submitting a file sets it to 0; a
\* render that runs k queued tick updaters raises it by 2k to 8k or to the
\* cap of 100, and never lowers it.
C22_ProgressBounded ==
  /\ [](home.progress \in 0..100)
  /\ [][/\ \A f \in Files :
             ((onDrop(f) \/ onBrowseChange(f)) /\ f.isImage) =>
               home'.progress = 0 /\ home'.scanning
        /\ Render =>
             /\ home'.progress >= home.progress
             /\ \/ home'.progress = 100
                \/ (home'.progress - home.progress)
                     \in (2 * Len(updateQueue))..(8 * Len(updateQueue))]_vars

\* C22 witness: a Running scan between 0 and 100 with a tick waiting for its render
C22_RunningMidway ==
  /\ home.scanning
  /\ home.scan \in intervals
  /\ home.progress \in 50..99
  /\ updateQueue # <<>>

\* C24: a change of category leaves no file, scanning false and progress 0,
\* whatever the engine was doing; a change of crop kind alone changes the
\* crop kind and nothing else of the page or its timers.
C24_CategoryChangeDiscards ==
  [][/\ \A t \in AnalysisTypes :
          SetAnalysisType(t) =>
            /\ home'.analysisType = t
            /\ home'.file = NoFile
            /\ ~home'.scanning
            /\ home'.progress = 0
     /\ \A c \in CropInputs :
          SetCropType(c) =>
            /\ home' = [home EXCEPT !.cropType = c]
            /\ UNCHANGED <<intervals, timeouts, reading, updateQueue, scans, storeVars>>]_vars

\* C24 witness: the category was changed during a scan and the page is Idle
C24_ChangedDuringScan ==
  /\ last.op = "typeChange"
  /\ cancelled # {}
  /\ home.file = NoFile
  /\ ~home.scanning
  /\ home.progress = 0

\* C23: a settle callback writes the hand-off slot only while localStorage
\* holds an authenticated session with a non-empty email.
C23_DepositOnlyInSession ==
  (variant = "handoff" /\ last.op = "deposit") => Authenticated(localStorage)

\* C26: every result written to the hand-off slot is that of the scan
\* started last; a scan that a later file has superseded deposits nothing.
C26_OnlyLatestScanDeposits ==
  (variant = "handoff" /\ last.op = "deposit") => last.scan = nextScan - 1

\* The display names of the stored accounts that have the email e
NamesOf(e) ==
  {RegisteredUsers(localStorage)[i].fullName :
     i \in {j \in DOMAIN RegisteredUsers(localStorage) :
              RegisteredUsers(localStorage)[j].email = e}}

\* C27: in a session, a stored display name is the display name of an
\* account that has the session's email.
C27_NameBelongsToEmail ==
  (Authenticated(localStorage) /\ HasItem(localStorage, "userName")) =>
    localStorage["userName"] \in NamesOf(localStorage["userEmail"])

\* C28: when the result the results page shows was deposited with an image
\* snapshot, the image the page displays is that snapshot.
C28_SnapshotDisplayed ==
  (ResultsShown /\ "imageData" \in DOMAIN results.result) =>
    ImageShown(results.result) = results.result["imageData"]

\* C29: a rejected login changes neither localStorage (authenticated flag,
\* session email and name, account list) nor sessionStorage (hand-off slot),
\* with or without a session active.
C29_FailedLoginKeepsStorage ==
  [][LoginReject => (localStorage' = localStorage /\ sessionStorage' = sessionStorage)]_vars

\* C29 witness: a login was rejected while Ann's session was active and the
\* slot was full
C29_RejectedInSession ==
  /\ last.op = "loginError"
  /\ localStorage = AnnSession
  /\ SlotFull

\* C30: when the results page mounts in a session with the hand-off slot
\* empty or holding text that is no JSON, it sets no result, goes to the
\* capture page and leaves localStorage and sessionStorage as they are.
C30_NoResultRedirects ==
  [][(/\ MountResults
      /\ Authenticated(localStorage)
      /\ (SlotFull => sessionStorage[SlotKey] = NotJson)) =>
       /\ route' = "home"
       /\ results'.result = NoResult
       /\ localStorage' = localStorage
       /\ sessionStorage' = sessionStorage]_vars

\* C30 witness: the results page has just redirected with unparsable text in the slot
C30_RedirectedOnBadJson ==
  /\ last.op = "noResult"
  /\ route = "home"
  /\ Authenticated(localStorage)
  /\ SlotFull
  /\ sessionStorage[SlotKey] = NotJson

====
